---------------------------- MODULE Spec2Model ----------------------------
(***************************************************************************)
(* A model of typerandom/cocoon: the built-in validators working on a      *)
(* ValidatorContext (src/unnamed/part_000) and the reflection helpers      *)
(* FullName, GetStructFields and CallDynamicMethod                         *)
(* (src/core/reflection.go).                                               *)
(*                                                                         *)
(* Go strings are sequences of one-character strings (one element per      *)
(* rune), so that length, parsing and concatenation are computed.          *)
(***************************************************************************)
EXTENDS Integers, Sequences, FiniteSets, TLC

VARIABLES
    orig,       \* the normalized value the current context was built from
    ctx,        \* the ValidatorContext: Value, IsNil, StopValidate
    last,       \* the last validator call on ctx: name, options, context before, error
    fields,     \* the ReflectedFields built so far (Parent is an index, 0 = nil)
    fnCall,     \* the last FullName call: receiver, postfix, returned string
    gsCall,     \* the last GetStructFields call: the record walked and what came back
    cdCall      \* the last CallDynamicMethod call: target, name, args and what came back

vars == <<orig, ctx, last, fields, fnCall, gsCall, cdCall>>

(***************************************************************************)
(* Bounds of the model.                                                    *)
(***************************************************************************)
MaxStrLen == 2
MaxInt == 2
MaxThreshold == 3
MaxDepth == 3
MaxPostfix == 2
MaxFields == 2
MaxArgs == 2

(***************************************************************************)
(* Strings and runes.                                                      *)
(***************************************************************************)
SeqsUpTo(S, n) == UNION {[1..k -> S] : k \in 0..n}

\* The runes of the model: ASCII letters, digits and signs, the two-byte
\* lower-case letter é (U+00E9, bytes C3 A9) and the three-byte upper-case
\* letter B with dot above (U+1E02, bytes E1 B8 82), written "U+1E02".
ByteLen(c) == CASE c = "é" -> 2 [] c = "U+1E02" -> 3 [] OTHER -> 1

RECURSIVE StrLen(_)
\* len(s): the length of a Go string in bytes.
StrLen(s) == IF s = <<>> THEN 0 ELSE ByteLen(Head(s)) + StrLen(Tail(s))

\* unicode.IsLetter, unicode.IsLower and unicode.IsUpper on those runes.
IsLetter(c) == c \in {"a", "b", "x", "A", "B", "I", "O", "n", "é", "U+1E02"}
IsLower(c) == c \in {"a", "b", "x", "n", "é"}
IsUpper(c) == c \in {"A", "B", "I", "O", "U+1E02"}

\* s[0]: the first byte of the UTF-8 encoding of a string that starts with c.
FirstByte(c) ==
    CASE c = "A" -> 65 [] c = "B" -> 66 [] c = "I" -> 73 [] c = "O" -> 79
      [] c = "a" -> 97 [] c = "b" -> 98 [] c = "n" -> 110 [] c = "x" -> 120
      [] c = "é" -> 195 [] c = "U+1E02" -> 225

\* unicode.IsUpper(rune(b)) of a byte b: the byte read as the code point of
\* that number (A-Z, and À-Þ without the multiplication sign).
IsUpperByteRune(b) == b \in 65..90 \/ (b \in 192..222 /\ b # 215)

Digits == <<"0", "1", "2", "3", "4", "5", "6", "7", "8", "9">>
IsDigit(c) == \E i \in 1..10 : Digits[i] = c
DigitVal(c) == (CHOOSE i \in 1..10 : Digits[i] = c) - 1

RECURSIVE ItoaNat(_)
ItoaNat(n) == IF n < 10 THEN <<Digits[n + 1]>>
              ELSE ItoaNat(n \div 10) \o <<Digits[(n % 10) + 1]>>

\* strconv.Itoa
Itoa(n) == IF n < 0 THEN <<"-">> \o ItoaNat(0 - n) ELSE ItoaNat(n)

\* The largest value of a signed integer of the bit size IsNumeric parses to.
MaxInt32 == 2147483647

RECURSIVE ParseUint31(_, _)
\* strconv.ParseUint(s, 10, 32) as far as ParseInt(s, 10, 32) needs it: the
\* magnitude of the digit string s on top of acc.  "min" stands for exactly
\* 2^31, the one magnitude above MaxInt32 that ParseInt accepts (negated).
ParseUint31(s, acc) ==
    IF s = <<>> THEN [ok |-> TRUE, min |-> FALSE, n |-> acc]
    ELSE IF ~IsDigit(Head(s)) THEN [ok |-> FALSE, min |-> FALSE, n |-> 0]
    ELSE LET d == DigitVal(Head(s)) IN
         IF acc > (MaxInt32 - d) \div 10
         THEN IF Tail(s) = <<>> /\ acc = MaxInt32 \div 10 /\ d = (MaxInt32 % 10) + 1
              THEN [ok |-> TRUE, min |-> TRUE, n |-> 0]
              ELSE [ok |-> FALSE, min |-> FALSE, n |-> 0]
         ELSE ParseUint31(Tail(s), acc * 10 + d)

\* strconv.ParseInt(s, 10, 32): [ok, n]; ok = FALSE is a syntax or a range error.
ParseInt32(s) ==
    IF s = <<>> THEN [ok |-> FALSE, n |-> 0]
    ELSE LET neg  == Head(s) = "-"
             body == IF Head(s) \in {"+", "-"} THEN Tail(s) ELSE s
         IN  IF body = <<>> THEN [ok |-> FALSE, n |-> 0]
             ELSE LET u == ParseUint31(body, 0) IN
                  IF ~u.ok THEN [ok |-> FALSE, n |-> 0]
                  ELSE IF u.min
                       THEN IF neg THEN [ok |-> TRUE, n |-> (0 - MaxInt32) - 1]
                            ELSE [ok |-> FALSE, n |-> 0]
                       ELSE [ok |-> TRUE, n |-> IF neg THEN 0 - u.n ELSE u.n]

RECURSIVE AtoiDigits(_, _)
AtoiDigits(s, acc) ==
    IF s = <<>> THEN [ok |-> TRUE, n |-> acc]
    ELSE IF ~IsDigit(Head(s)) THEN [ok |-> FALSE, n |-> 0]
    ELSE AtoiDigits(Tail(s), acc * 10 + DigitVal(Head(s)))

\* strconv.Atoi on a 64-bit platform, for the strings of fewer than 19 bytes
\* (no range error can occur on them): [ok, n].
Atoi(s) ==
    IF s = <<>> THEN [ok |-> FALSE, n |-> 0]
    ELSE LET body == IF Head(s) \in {"+", "-"} THEN Tail(s) ELSE s IN
         IF body = <<>> THEN [ok |-> FALSE, n |-> 0]
         ELSE LET u == AtoiDigits(body, 0) IN
              IF ~u.ok THEN [ok |-> FALSE, n |-> 0]
              ELSE [ok |-> TRUE, n |-> IF Head(s) = "-" THEN 0 - u.n ELSE u.n]

(***************************************************************************)
(* Values a ValidatorContext can hold.  A float64 is NaN, an infinity or   *)
(* a finite number of halves (fnum / 2).                                   *)
(***************************************************************************)
StringValue(s) == [kind |-> "string", str |-> s, int |-> 0, fcls |-> "fin", fnum |-> 0]
Int64Value(n) == [kind |-> "int64", str |-> <<>>, int |-> n, fcls |-> "fin", fnum |-> 0]
Float64Value(cls, num) ==
    [kind |-> "float64", str |-> <<>>, int |-> 0, fcls |-> cls, fnum |-> num]
\* A value of another type: a slice (nil-capable) or the untyped nil interface.
OtherValue(k) == [kind |-> k, str |-> <<>>, int |-> 0, fcls |-> "fin", fnum |-> 0]

\* float64(n) of an int n (exact for the thresholds of the model).
Float64OfInt(n) == Float64Value("fin", 2 * n)

\* a < b on float64: false when either is NaN.
FloatLess(a, b) ==
    /\ a.fcls # "nan" /\ b.fcls # "nan"
    /\ \/ a.fcls = "-inf" /\ b.fcls # "-inf"
       \/ a.fcls # "+inf" /\ b.fcls = "+inf"
       \/ a.fcls = "fin" /\ b.fcls = "fin" /\ a.fnum < b.fnum

\* a == 0 on float64.
FloatIsZero(a) == a.fcls = "fin" /\ a.fnum = 0

(***************************************************************************)
(* Errors.  errors.New(pre + arg + post) is an errorString; the type of    *)
(* an UnsupportedTypeError is kept in vtype.                               *)
(***************************************************************************)
NoError == [type |-> "nil", pre |-> "", arg |-> <<>>, post |-> "", vtype |-> ""]

ErrorsNew(msg) ==
    [type |-> "errorString", pre |-> msg, arg |-> <<>>, post |-> "", vtype |-> ""]

ErrorsNew3(pre, arg, post) ==
    [type |-> "errorString", pre |-> pre, arg |-> arg, post |-> post, vtype |-> ""]

NewUnsupportedTypeError(validatorName, value) ==
    [type |-> "UnsupportedTypeError", pre |-> "Validator with name '",
     arg |-> <<>>, post |-> validatorName,
     vtype |-> IF value.kind = "nil" THEN "<nil>" ELSE value.kind]

NewValidatorContext(normalizedValue) ==
    [Value |-> normalizedValue.Value, IsNil |-> normalizedValue.IsNil,
     StopValidate |-> FALSE]

\* What a validator leaves behind: the context after the call and the error.
Return(context, err) == [ctx |-> context, err |-> err]

(***************************************************************************)
(* The built-in validators.                                                *)
(***************************************************************************)
\* IsEmpty with the float64 case IsNotEmpty has.
IsEmptyWithFloat(context, options) ==
    IF Len(options) > 0
    THEN Return(context, ErrorsNew("Validator 'empty' does not support any arguments."))
    ELSE CASE context.Value.kind = "string" ->
                Return(IF context.IsNil \/ StrLen(context.Value.str) = 0
                       THEN [context EXCEPT !.StopValidate = TRUE] ELSE context,
                       NoError)
           [] context.Value.kind = "int64" ->
                Return(IF context.IsNil \/ context.Value.int = 0
                       THEN [context EXCEPT !.StopValidate = TRUE] ELSE context,
                       NoError)
           [] context.Value.kind = "float64" ->
                Return(IF context.IsNil \/ FloatIsZero(context.Value)
                       THEN [context EXCEPT !.StopValidate = TRUE] ELSE context,
                       NoError)
           [] OTHER ->
                IF context.IsNil
                THEN Return([context EXCEPT !.StopValidate = TRUE], NoError)
                ELSE Return(context, NewUnsupportedTypeError("empty", context.Value))

IsEmpty(context, options) ==
    IF Len(options) > 0
    THEN Return(context, ErrorsNew("Validator 'empty' does not support any arguments."))
    ELSE CASE context.Value.kind = "string" ->
                Return(IF context.IsNil \/ StrLen(context.Value.str) = 0
                       THEN [context EXCEPT !.StopValidate = TRUE] ELSE context,
                       NoError)
           [] context.Value.kind = "int64" ->
                Return(IF context.IsNil \/ context.Value.int = 0
                       THEN [context EXCEPT !.StopValidate = TRUE] ELSE context,
                       NoError)
           [] OTHER ->
                IF context.IsNil
                THEN Return([context EXCEPT !.StopValidate = TRUE], NoError)
                ELSE Return(context, NewUnsupportedTypeError("empty", context.Value))

\* IsNotEmpty stopping the chain when it reports an empty value.
IsNotEmptyStops(context, options) ==
    IF Len(options) > 0
    THEN Return(context, ErrorsNew("Validator 'not_empty' does not support any arguments."))
    ELSE IF context.IsNil
    THEN Return([context EXCEPT !.StopValidate = TRUE],
                ErrorsNew("{field} cannot be empty."))
    ELSE CASE context.Value.kind = "string" ->
                IF StrLen(context.Value.str) = 0
                THEN Return([context EXCEPT !.StopValidate = TRUE],
                            ErrorsNew("{field} cannot be empty."))
                ELSE Return(context, NoError)
           [] context.Value.kind = "int64" ->
                IF context.Value.int = 0
                THEN Return([context EXCEPT !.StopValidate = TRUE],
                            ErrorsNew("{field} cannot be empty."))
                ELSE Return(context, NoError)
           [] context.Value.kind = "float64" ->
                IF FloatIsZero(context.Value)
                THEN Return([context EXCEPT !.StopValidate = TRUE],
                            ErrorsNew("{field} cannot be empty."))
                ELSE Return(context, NoError)
           [] OTHER ->
                Return(context, NewUnsupportedTypeError("not_empty", context.Value))

IsNotEmpty(context, options) ==
    IF Len(options) > 0
    THEN Return(context, ErrorsNew("Validator 'not_empty' does not support any arguments."))
    ELSE CASE context.Value.kind = "string" ->
                IF context.IsNil \/ StrLen(context.Value.str) = 0
                THEN Return(context, ErrorsNew("{field} cannot be empty."))
                ELSE Return(context, NoError)
           [] context.Value.kind = "int64" ->
                IF context.IsNil \/ context.Value.int = 0
                THEN Return(context, ErrorsNew("{field} cannot be empty."))
                ELSE Return(context, NoError)
           [] context.Value.kind = "float64" ->
                IF context.IsNil \/ FloatIsZero(context.Value)
                THEN Return(context, ErrorsNew("{field} cannot be empty."))
                ELSE Return(context, NoError)
           [] OTHER ->
                IF context.IsNil
                THEN Return(context, ErrorsNew("{field} cannot be empty."))
                ELSE Return(context, NewUnsupportedTypeError("not_empty", context.Value))

\* The type switch of IsMin with every comparison off by one (<= for <).
IsMinSwitchStrict(context, minValue) ==
    CASE context.Value.kind = "string" ->
            IF context.IsNil \/ StrLen(context.Value.str) <= minValue
            THEN Return(context, ErrorsNew3("{field} cannot be shorter than ",
                                            Itoa(minValue), " characters."))
            ELSE Return(context, NoError)
      [] context.Value.kind = "int64" ->
            IF context.IsNil \/ context.Value.int <= minValue
            THEN Return(context, ErrorsNew3("{field} cannot be less than ",
                                            Itoa(minValue), "."))
            ELSE Return(context, NoError)
      [] context.Value.kind = "float64" ->
            IF context.IsNil \/ ~FloatLess(Float64OfInt(minValue), context.Value)
            THEN Return(context, ErrorsNew3("{field} cannot be less than ",
                                            Itoa(minValue), "."))
            ELSE Return(context, NoError)
      [] OTHER ->
            Return(context, NewUnsupportedTypeError("min", context.Value))

\* The type switch of IsMin: the value against the parsed threshold.
IsMinSwitch(context, minValue) ==
    CASE context.Value.kind = "string" ->
            IF context.IsNil \/ StrLen(context.Value.str) < minValue
            THEN Return(context, ErrorsNew3("{field} cannot be shorter than ",
                                            Itoa(minValue), " characters."))
            ELSE Return(context, NoError)
      [] context.Value.kind = "int64" ->
            IF context.IsNil \/ context.Value.int < minValue
            THEN Return(context, ErrorsNew3("{field} cannot be less than ",
                                            Itoa(minValue), "."))
            ELSE Return(context, NoError)
      [] context.Value.kind = "float64" ->
            IF context.IsNil \/ FloatLess(context.Value, Float64OfInt(minValue))
            THEN Return(context, ErrorsNew3("{field} cannot be less than ",
                                            Itoa(minValue), "."))
            ELSE Return(context, NoError)
      [] OTHER ->
            Return(context, NewUnsupportedTypeError("min", context.Value))

\* IsMin with the type switch entered before the options are looked at.
IsMinTypeFirst(context, options) ==
    IF context.Value.kind \notin {"string", "int64", "float64"}
    THEN Return(context, NewUnsupportedTypeError("min", context.Value))
    ELSE IF Len(options) # 1
    THEN Return(context, ErrorsNew("Validator 'min' requires a single argument."))
    ELSE LET parsed == Atoi(options[1]) IN
         IF ~parsed.ok
         THEN Return(context, ErrorsNew("Unable to parse 'min' validator value."))
         ELSE IsMinSwitch(context, parsed.n)

IsMin(context, options) ==
    IF Len(options) # 1
    THEN Return(context, ErrorsNew("Validator 'min' requires a single argument."))
    ELSE LET parsed == Atoi(options[1]) IN
         IF ~parsed.ok
         THEN Return(context, ErrorsNew("Unable to parse 'min' validator value."))
         ELSE IsMinSwitch(context, parsed.n)

\* The type switch of IsMax with the nil test of IsMin: a nil value fails.
IsMaxSwitchNilFails(context, minValue) ==
    CASE context.Value.kind = "string" ->
            IF context.IsNil \/ StrLen(context.Value.str) > minValue
            THEN Return(context, ErrorsNew3("{field} is longer than ",
                                            Itoa(minValue), " characters."))
            ELSE Return(context, NoError)
      [] context.Value.kind = "int64" ->
            IF context.IsNil \/ context.Value.int > minValue
            THEN Return(context, ErrorsNew3("{field} cannot be greater than ",
                                            Itoa(minValue), "."))
            ELSE Return(context, NoError)
      [] context.Value.kind = "float64" ->
            IF context.IsNil \/ FloatLess(Float64OfInt(minValue), context.Value)
            THEN Return(context, ErrorsNew3("{field} cannot be greater than ",
                                            Itoa(minValue), "."))
            ELSE Return(context, NoError)
      [] OTHER ->
            Return(context, NewUnsupportedTypeError("max", context.Value))

\* The type switch of IsMax: the value against the parsed threshold.
IsMaxSwitch(context, minValue) ==
    CASE context.Value.kind = "string" ->
            IF ~context.IsNil /\ StrLen(context.Value.str) > minValue
            THEN Return(context, ErrorsNew3("{field} is longer than ",
                                            Itoa(minValue), " characters."))
            ELSE Return(context, NoError)
      [] context.Value.kind = "int64" ->
            IF ~context.IsNil /\ context.Value.int > minValue
            THEN Return(context, ErrorsNew3("{field} cannot be greater than ",
                                            Itoa(minValue), "."))
            ELSE Return(context, NoError)
      [] context.Value.kind = "float64" ->
            IF ~context.IsNil /\ FloatLess(Float64OfInt(minValue), context.Value)
            THEN Return(context, ErrorsNew3("{field} cannot be greater than ",
                                            Itoa(minValue), "."))
            ELSE Return(context, NoError)
      [] OTHER ->
            Return(context, NewUnsupportedTypeError("max", context.Value))

\* IsMax with the type switch entered before the option is parsed.
IsMaxTypeFirst(context, options) ==
    IF Len(options) # 1
    THEN Return(context, ErrorsNew("Validator 'max' requires a single argument."))
    ELSE IF context.Value.kind \notin {"string", "int64", "float64"}
    THEN Return(context, NewUnsupportedTypeError("max", context.Value))
    ELSE LET parsed == Atoi(options[1]) IN
         IF ~parsed.ok
         THEN Return(context, ErrorsNew("Unable to parse 'max' validator value."))
         ELSE IsMaxSwitch(context, parsed.n)

IsMax(context, options) ==
    IF Len(options) # 1
    THEN Return(context, ErrorsNew("Validator 'max' requires a single argument."))
    ELSE LET parsed == Atoi(options[1]) IN
         IF ~parsed.ok
         THEN Return(context, ErrorsNew("Unable to parse 'max' validator value."))
         ELSE IsMaxSwitch(context, parsed.n)

IsLowerCase(context, options) ==
    IF Len(options) > 0
    THEN Return(context, ErrorsNew("Validator 'lowercase' does not support any arguments."))
    ELSE IF context.Value.kind = "string"
    THEN IF context.IsNil \/ StrLen(context.Value.str) = 0
         THEN Return(context, NoError)
         ELSE IF \E i \in 1..Len(context.Value.str) :
                    IsLetter(context.Value.str[i]) /\ ~IsLower(context.Value.str[i])
              THEN Return(context, ErrorsNew("{field} must be in lower case."))
              ELSE Return(context, NoError)
    ELSE Return(context, NewUnsupportedTypeError("lowercase", context.Value))

IsUpperCase(context, options) ==
    IF Len(options) > 0
    THEN Return(context, ErrorsNew("Validator 'uppercase' does not support any arguments."))
    ELSE IF context.Value.kind = "string"
    THEN IF context.IsNil \/ StrLen(context.Value.str) = 0
         THEN Return(context, NoError)
         ELSE IF \E i \in 1..Len(context.Value.str) :
                    IsLetter(context.Value.str[i]) /\ ~IsUpper(context.Value.str[i])
              THEN Return(context, ErrorsNew("{field} must be in upper case."))
              ELSE Return(context, NoError)
    ELSE Return(context, NewUnsupportedTypeError("uppercase", context.Value))

\* IsNumeric that parses the string and leaves context.Value as it was.
IsNumericKeepsString(context, options) ==
    IF Len(options) > 0
    THEN Return(context, ErrorsNew("Validator 'numeric' does not support any arguments."))
    ELSE IF context.Value.kind = "string"
    THEN IF context.IsNil \/ StrLen(context.Value.str) = 0
         THEN Return(context, ErrorsNew("{field} must be numeric."))
         ELSE IF ~ParseInt32(context.Value.str).ok
              THEN Return(context, ErrorsNew("{field} must contain numbers only."))
              ELSE Return(context, NoError)
    ELSE Return(context, NewUnsupportedTypeError("numeric", context.Value))

IsNumeric(context, options) ==
    IF Len(options) > 0
    THEN Return(context, ErrorsNew("Validator 'numeric' does not support any arguments."))
    ELSE IF context.Value.kind = "string"
    THEN IF context.IsNil \/ StrLen(context.Value.str) = 0
         THEN Return(context, ErrorsNew("{field} must be numeric."))
         ELSE LET parsed == ParseInt32(context.Value.str) IN
              IF ~parsed.ok
              THEN Return(context, ErrorsNew("{field} must contain numbers only."))
              ELSE Return([context EXCEPT !.Value = Int64Value(parsed.n)], NoError)
    ELSE Return(context, NewUnsupportedTypeError("numeric", context.Value))


(***************************************************************************)
(* The inputs of the validator model.                                      *)
(***************************************************************************)
Alphabet == {"a", "A", "5", "é"}

\* Strings around the edges of ParseInt(s, 10, 32): signs and the 32-bit range.
NumericProbes ==
    { <<"-", "5">>, <<"+", "5">>, <<"5", "x">>,
      <<"2", "1", "4", "7", "4", "8", "3", "6", "4", "7">>,
      <<"2", "1", "4", "7", "4", "8", "3", "6", "4", "8">>,
      <<"-", "2", "1", "4", "7", "4", "8", "3", "6", "4", "8">>,
      <<"-", "2", "1", "4", "7", "4", "8", "3", "6", "4", "9">> }

Values ==
    {StringValue(s) : s \in SeqsUpTo(Alphabet, MaxStrLen) \cup NumericProbes}
    \cup {Int64Value(n) : n \in (0 - MaxInt)..MaxInt}
    \cup {Float64Value(c, 0) : c \in {"nan", "+inf", "-inf"}}
    \cup {Float64Value("fin", h) : h \in (0 - 2 * MaxInt)..(2 * MaxInt)}
    \cup {OtherValue("slice"), OtherValue("nil")}

NormalizedValues == [Value : Values, IsNil : BOOLEAN]

ThresholdOptions == {Itoa(n) : n \in (0 - MaxThreshold)..MaxThreshold} \cup {<<"+", "1">>}
BadOptions == {<<>>, <<"x">>, <<"-">>, <<"1", "x">>}

OptionLists ==
    {<<>>}
    \cup {<<o>> : o \in ThresholdOptions \cup BadOptions}
    \cup {<<a, b>> : a \in {<<"1">>, <<"x">>}, b \in {<<"1">>, <<"x">>}}

NoCall(context) == [name |-> "none", options |-> <<>>, pre |-> context, err |-> NoError]

(***************************************************************************)
(* The reflection state while the validators run, and the validator state  *)
(* while the reflection helpers run.                                       *)
(***************************************************************************)
NoFullName == [field |-> 0, postfix |-> <<>>, result |-> <<>>]
NoWalk ==
    [called |-> FALSE, record |-> <<>>, passedBy |-> "value",
     result |-> [fields |-> <<>>, isNil |-> TRUE, err |-> "nil",
                 panicked |-> FALSE, parsed |-> {}]]
NoDynamicCall ==
    [called |-> FALSE, target |-> "value", methodName |-> "", args |-> <<>>,
     result |-> [results |-> <<>>, isNil |-> TRUE, err |-> "nil",
                 panicked |-> FALSE, panic |-> ""]]

IdleValue == [Value |-> OtherValue("nil"), IsNil |-> TRUE]

ValidatorIdle ==
    /\ orig = IdleValue
    /\ ctx = NewValidatorContext(IdleValue)
    /\ last = NoCall(NewValidatorContext(IdleValue))

(***************************************************************************)
(* The validator chain: a context is built from a normalized value and     *)
(* validators are called on it, each with its options.                     *)
(***************************************************************************)
Init ==
    /\ orig \in NormalizedValues
    /\ ctx = NewValidatorContext(orig)
    /\ last = NoCall(ctx)
    /\ fields = <<>>
    /\ fnCall = NoFullName
    /\ gsCall = NoWalk
    /\ cdCall = NoDynamicCall

NewContext ==
    \E nv \in NormalizedValues :
        /\ orig' = nv
        /\ ctx' = NewValidatorContext(nv)
        /\ last' = NoCall(NewValidatorContext(nv))
        /\ UNCHANGED <<fields, fnCall, gsCall, cdCall>>

\* One call validator(&ctx, options) that came back with r.
Called(name, options, r) ==
    /\ ctx' = r.ctx
    /\ last' = [name |-> name, options |-> options, pre |-> ctx, err |-> r.err]
    /\ UNCHANGED <<orig, fields, fnCall, gsCall, cdCall>>

CallEmpty == \E options \in OptionLists : Called("empty", options, IsEmpty(ctx, options))
CallNotEmpty ==
    \E options \in OptionLists : Called("not_empty", options, IsNotEmpty(ctx, options))
CallMin == \E options \in OptionLists : Called("min", options, IsMin(ctx, options))
CallMax == \E options \in OptionLists : Called("max", options, IsMax(ctx, options))
CallLowerCase ==
    \E options \in OptionLists : Called("lowercase", options, IsLowerCase(ctx, options))
CallUpperCase ==
    \E options \in OptionLists : Called("uppercase", options, IsUpperCase(ctx, options))
CallNumeric ==
    \E options \in OptionLists : Called("numeric", options, IsNumeric(ctx, options))

\* The validators registerDefaultValidators registers, each callable by name.
Next ==
    \/ NewContext
    \/ CallEmpty
    \/ CallNotEmpty
    \/ CallMin
    \/ CallMax
    \/ CallLowerCase
    \/ CallUpperCase
    \/ CallNumeric

Spec == Init /\ [][Next]_vars


(***************************************************************************)
(* The vocabulary of the statements about the validators.                  *)
(***************************************************************************)
ZeroOptionValidators == {"empty", "not_empty", "lowercase", "uppercase", "numeric"}
SupportedByMinMax == {"string", "int64", "float64"}

\* The configuration error of a call with the wrong number of options.
ArityError(name) ==
    IF name \in {"min", "max"}
    THEN ErrorsNew(IF name = "min" THEN "Validator 'min' requires a single argument."
                   ELSE "Validator 'max' requires a single argument.")
    ELSE ErrorsNew(CASE name = "empty" -> "Validator 'empty' does not support any arguments."
                     [] name = "not_empty" ->
                          "Validator 'not_empty' does not support any arguments."
                     [] name = "lowercase" ->
                          "Validator 'lowercase' does not support any arguments."
                     [] name = "uppercase" ->
                          "Validator 'uppercase' does not support any arguments."
                     [] OTHER -> "Validator 'numeric' does not support any arguments.")

\* The configuration error of an option that is no integer.
FormatError(name) ==
    ErrorsNew(IF name = "min" THEN "Unable to parse 'min' validator value."
              ELSE "Unable to parse 'max' validator value.")

IsConfigurationError(e) ==
    \E name \in ZeroOptionValidators \cup {"min", "max"} :
        e = ArityError(name) \/ e = FormatError(name)
IsUnsupportedTypeError(e) == e.type = "UnsupportedTypeError"
IsValueError(e) ==
    e.type = "errorString" /\ ~IsConfigurationError(e)

WrongArity(name, options) ==
    \/ name \in ZeroOptionValidators /\ Len(options) > 0
    \/ name \in {"min", "max"} /\ Len(options) # 1

\* The option strings that are base-10 integers, and the integer each one is.
IntegerOption(o) ==
    \E n \in (0 - MaxThreshold)..MaxThreshold :
        o = Itoa(n) \/ (n >= 0 /\ o = <<"+">> \o Itoa(n))
OptionValue(o) ==
    CHOOSE n \in (0 - MaxThreshold)..MaxThreshold :
        o = Itoa(n) \/ (n >= 0 /\ o = <<"+">> \o Itoa(n))

\* A call of min or max with one integer option.
ThresholdCall(name) ==
    /\ last.name = name
    /\ Len(last.options) = 1
    /\ IntegerOption(last.options[1])

\* value >= n and value <= n as numbers: the length of a string, the value of
\* an int64 or a float64.  NaN is neither >= n nor <= n.
MeasureGE(v, n) ==
    CASE v.kind = "string" -> StrLen(v.str) >= n
      [] v.kind = "int64" -> v.int >= n
      [] OTHER -> v.fcls = "+inf" \/ (v.fcls = "fin" /\ v.fnum >= 2 * n)
MeasureLE(v, n) ==
    CASE v.kind = "string" -> StrLen(v.str) <= n
      [] v.kind = "int64" -> v.int <= n
      [] OTHER -> v.fcls = "-inf" \/ (v.fcls = "fin" /\ v.fnum <= 2 * n)
IsNaN(v) == v.kind = "float64" /\ v.fcls = "nan"

\* The digits of a base-10 integer string without sign and leading zeros.
RECURSIVE StripZeros(_)
StripZeros(d) == IF Len(d) > 1 /\ Head(d) = "0" THEN StripZeros(Tail(d)) ELSE d
Unsigned(s) == IF s # <<>> /\ Head(s) \in {"+", "-"} THEN Tail(s) ELSE s
\* a <= b for digit strings of one length.
RECURSIVE DigitsLE(_, _)
DigitsLE(a, b) ==
    \/ a = <<>>
    \/ DigitVal(Head(a)) < DigitVal(Head(b))
    \/ Head(a) = Head(b) /\ DigitsLE(Tail(a), Tail(b))
\* s is a base-10 integer (an optional sign, then digits) in the 32-bit range.
Base10Int32(s) ==
    LET d == Unsigned(s) IN
    /\ d # <<>>
    /\ \A i \in 1..Len(d) : IsDigit(d[i])
    /\ LET m == StripZeros(d)
           top == ItoaNat(MaxInt32)
       IN  \/ Len(m) < Len(top)
           \/ /\ Len(m) = Len(top)
              /\ \/ DigitsLE(m, top)
                 \/ Head(s) = "-" /\ SubSeq(m, 1, Len(m) - 1) = SubSeq(top, 1, Len(top) - 1)
                                  /\ DigitVal(m[Len(m)]) = DigitVal(top[Len(top)]) + 1
\* The integer a Base10Int32 string denotes (summed downwards from zero, so
\* that -2^31 is reached without passing 2^31).
RECURSIVE NegativeOf(_, _)
NegativeOf(d, acc) ==
    IF d = <<>> THEN acc ELSE NegativeOf(Tail(d), (acc * 10) - DigitVal(Head(d)))
Base10Value(s) ==
    IF Head(s) = "-" THEN NegativeOf(Unsigned(s), 0) ELSE 0 - NegativeOf(Unsigned(s), 0)

\* The context was coerced by numeric: it was built from a string and holds
\* an integer.
Coerced == orig.Value.kind = "string" /\ last.pre.Value.kind = "int64"

(***************************************************************************)
(* Statements about the validators, checked under Spec.                    *)
(***************************************************************************)

\* C1: numeric on a non-nil string that is a base-10 integer in 32-bit range
\* returns no error and replaces context.Value by the parsed int64; a numeric
\* call that returns an error leaves context.Value as it was; and min and max
\* called on a coerced context compare the parsed integer (not the length of
\* the original string) against their threshold.
C1_NumericCoercionComposes ==
    /\ (last.name = "numeric" /\ last.options = <<>>
            /\ last.pre.Value.kind = "string" /\ ~last.pre.IsNil
            /\ Base10Int32(last.pre.Value.str))
         => /\ last.err = NoError
            /\ ctx.Value = Int64Value(Base10Value(last.pre.Value.str))
    /\ (last.name = "numeric" /\ last.err # NoError) => ctx.Value = last.pre.Value
    /\ Coerced
         => /\ Base10Int32(orig.Value.str)
            /\ last.pre.Value = Int64Value(Base10Value(orig.Value.str))
    /\ (Coerced /\ ThresholdCall("min"))
         => (last.err = NoError
                <=> Base10Value(orig.Value.str) >= OptionValue(last.options[1]))
    /\ (Coerced /\ ThresholdCall("max"))
         => (last.err = NoError
                <=> Base10Value(orig.Value.str) <= OptionValue(last.options[1]))

\* "5" has passed numeric and then passes min:3, although its length is 1.
C1_Witness ==
    /\ orig = [Value |-> StringValue(<<"5">>), IsNil |-> FALSE]
    /\ last.name = "min" /\ last.options = <<<<"3">>>>
    /\ last.pre.Value = Int64Value(5)
    /\ last.err = NoError

\* C2: a call with the wrong number of options returns the validator's arity
\* error whatever the context holds, and leaves the context unchanged.
C2_WrongArityIsConfigurationError ==
    WrongArity(last.name, last.options)
        => /\ last.err = ArityError(last.name)
           /\ ctx = last.pre

\* min called with two options on a non-nil slice: the arity error, not the
\* unsupported-type error.
C2_Witness ==
    /\ last.name = "min" /\ Len(last.options) = 2
    /\ last.pre.Value.kind = "slice" /\ ~last.pre.IsNil
    /\ last.err = ArityError("min")

\* C3 as stated: max with one integer option returns no error for every
\* context whose IsNil is true, whatever kind of value it carries.
C3_NilAlwaysPassesMax ==
    (ThresholdCall("max") /\ last.pre.IsNil) => last.err = NoError

\* C3 as amended: max with one integer option returns no error for every nil
\* context that carries a string, an int64 or a float64, whatever the
\* threshold; for a nil context of any other type it returns the
\* unsupported-type error.
C3_NilSupportedPassesMax ==
    (ThresholdCall("max") /\ last.pre.IsNil)
        => /\ last.pre.Value.kind \in SupportedByMinMax => last.err = NoError
           /\ last.pre.Value.kind \notin SupportedByMinMax
                => IsUnsupportedTypeError(last.err)
           /\ ctx = last.pre

\* A nil string passes max:-1, which no string that is not nil passes.
C3_Witness ==
    /\ last.name = "max" /\ last.options = <<Itoa(0 - 1)>>
    /\ last.pre.IsNil /\ last.pre.Value.kind = "string"
    /\ last.err = NoError

\* C4: empty without options sets the stop-flag and returns no error when
\* the value is nil, an empty string or the int64 zero; returns no error and
\* leaves the stop-flag for any other string or int64; and returns the
\* unsupported-type error, stop-flag untouched, for a non-nil value of any
\* other type (float64 included).
C4_EmptySetsStopFlag ==
    (last.name = "empty" /\ last.options = <<>>)
        => LET v == last.pre.Value
               isEmpty == \/ last.pre.IsNil
                          \/ v.kind = "string" /\ v.str = <<>>
                          \/ v.kind = "int64" /\ v.int = 0
           IN  /\ isEmpty
                    => /\ last.err = NoError
                       /\ ctx = [last.pre EXCEPT !.StopValidate = TRUE]
               /\ (~isEmpty /\ v.kind \in {"string", "int64"})
                    => /\ last.err = NoError
                       /\ ctx = last.pre
               /\ (~isEmpty /\ v.kind \notin {"string", "int64"})
                    => /\ IsUnsupportedTypeError(last.err)
                       /\ ctx = last.pre

\* empty has set the stop-flag on a non-nil int64 zero.
C4_Witness ==
    /\ last.name = "empty" /\ last.options = <<>>
    /\ last.pre = [Value |-> Int64Value(0), IsNil |-> FALSE, StopValidate |-> FALSE]
    /\ ctx.StopValidate
    /\ last.err = NoError

\* C5 as stated: with one integer option n and a non-nil string, int64 or
\* float64, min returns no error iff the measure is >= n and max iff it is
\* <= n; and min returns a value-validation error when the value is nil.
C5_InclusiveThresholds ==
    LET v == last.pre.Value IN
    /\ (ThresholdCall("min") /\ ~last.pre.IsNil /\ v.kind \in SupportedByMinMax)
         => (last.err = NoError <=> MeasureGE(v, OptionValue(last.options[1])))
    /\ (ThresholdCall("max") /\ ~last.pre.IsNil /\ v.kind \in SupportedByMinMax)
         => (last.err = NoError <=> MeasureLE(v, OptionValue(last.options[1])))
    /\ (ThresholdCall("min") /\ last.pre.IsNil) => IsValueError(last.err)

\* C5 as amended: the same for strings, int64 and the float64 that are not
\* NaN; a NaN passes both min and max; min returns a value-validation error
\* for a nil string, int64 or float64, and the unsupported-type error for a
\* nil value of any other type.
C5_InclusiveThresholdsExceptNaN ==
    LET v == last.pre.Value IN
    /\ (ThresholdCall("min") /\ ~last.pre.IsNil /\ v.kind \in SupportedByMinMax)
         => (last.err = NoError
                <=> (IsNaN(v) \/ MeasureGE(v, OptionValue(last.options[1]))))
    /\ (ThresholdCall("max") /\ ~last.pre.IsNil /\ v.kind \in SupportedByMinMax)
         => (last.err = NoError
                <=> (IsNaN(v) \/ MeasureLE(v, OptionValue(last.options[1]))))
    /\ ((ThresholdCall("min") \/ ThresholdCall("max")) /\ last.err # NoError
            /\ v.kind \in SupportedByMinMax)
         => IsValueError(last.err)
    /\ (ThresholdCall("min") /\ last.pre.IsNil)
         => IF v.kind \in SupportedByMinMax THEN IsValueError(last.err)
            ELSE IsUnsupportedTypeError(last.err)

\* min:2 has passed the int64 2 and max:2 would too: the threshold itself is
\* inside.
C5_Witness ==
    /\ last.name = "min" /\ last.options = <<<<"2">>>>
    /\ last.pre.Value = Int64Value(2) /\ ~last.pre.IsNil
    /\ last.err = NoError

\* C9: min and max report a single option that is no integer as the format
\* error before they look at the value: whatever the context holds, the
\* result is that error, never an unsupported-type or a value error, and the
\* context is unchanged.
C9_FormatErrorBeforeTypeDispatch ==
    (last.name \in {"min", "max"} /\ Len(last.options) = 1
        /\ ~IntegerOption(last.options[1]))
        => /\ last.err = FormatError(last.name)
           /\ ctx = last.pre

\* max:x on a non-nil slice: the format error, not the unsupported-type one.
C9_Witness ==
    /\ last.name = "max" /\ last.options = <<<<"x">>>>
    /\ last.pre.Value.kind = "slice" /\ ~last.pre.IsNil
    /\ last.err = FormatError("max")

\* C10: no validator call changes IsNil; StopValidate is changed by empty
\* alone and only from false to true; context.Value is changed by a numeric
\* call that returns no error alone; a call that returns an error leaves the
\* whole context unchanged.
C10_ValidatorFrame ==
    /\ ctx.IsNil = last.pre.IsNil
    /\ ctx.IsNil = orig.IsNil
    /\ ctx.StopValidate # last.pre.StopValidate
         => (last.name = "empty" /\ ~last.pre.StopValidate /\ ctx.StopValidate)
    /\ ctx.Value # last.pre.Value => (last.name = "numeric" /\ last.err = NoError)
    /\ last.err # NoError => ctx = last.pre

\* not_empty has reported an error on a context whose stop-flag empty had
\* set before, and the flag is still set.
C10_Witness ==
    /\ last.name = "not_empty" /\ last.err # NoError
    /\ last.pre.StopValidate /\ ctx.StopValidate

(***************************************************************************)
(* ReflectedField.FullName.  The ReflectedFields live in the sequence      *)
(* fields; Parent is the index of the parent in it, 0 for nil.             *)
(***************************************************************************)
RECURSIVE StringsJoin(_, _)
\* strings.Join(elems, sep)
StringsJoin(elems, sep) ==
    IF elems = <<>> THEN <<>>
    ELSE IF Len(elems) = 1 THEN elems[1]
    ELSE elems[1] \o sep \o StringsJoin(Tail(elems), sep)

RECURSIVE FullNameLoopNoSkip(_, _, _)
\* The loop of FullName without the test for an empty parent name.
FullNameLoopNoSkip(fs, fullName, parent) ==
    IF parent = 0 THEN fullName
    ELSE FullNameLoopNoSkip(fs, fs[parent].Name \o <<".">> \o fullName, fs[parent].Parent)

RECURSIVE FullNameLoop(_, _, _)
\* for parent != nil { ... }: the names of the parents put in front, one by one.
FullNameLoop(fs, fullName, parent) ==
    IF parent = 0 THEN fullName
    ELSE FullNameLoop(fs,
                      IF Len(fs[parent].Name) > 0
                      THEN fs[parent].Name \o <<".">> \o fullName
                      ELSE fullName,
                      fs[parent].Parent)

\* this.FullName(postfix...) for this = fs[field]
FullName(fs, field, postfix) ==
    LET fullName == FullNameLoop(fs, fs[field].Name, fs[field].Parent) IN
    IF Len(postfix) > 0
    THEN (IF Len(fullName) > 0 THEN fullName \o <<".">> ELSE fullName)
             \o StringsJoin(postfix, <<".">>)
    ELSE fullName

FieldNames == {<<>>, <<"O">>, <<"I", "n">>}
PostfixSegments == {<<>>, <<"x">>}

FullNameInit ==
    /\ ValidatorIdle
    /\ fields = <<>>
    /\ fnCall = NoFullName
    /\ gsCall = NoWalk
    /\ cdCall = NoDynamicCall

\* &ReflectedField{Parent: parent, Name: name}
NewReflectedField ==
    /\ Len(fields) < MaxDepth
    /\ \E parent \in 0..Len(fields), name \in FieldNames :
          fields' = Append(fields, [Parent |-> parent, Name |-> name])
    /\ UNCHANGED <<orig, ctx, last, fnCall, gsCall, cdCall>>

CallFullName ==
    \E field \in 1..Len(fields), postfix \in SeqsUpTo(PostfixSegments, MaxPostfix) :
        /\ fnCall' = [field |-> field, postfix |-> postfix,
                      result |-> FullName(fields, field, postfix)]
        /\ UNCHANGED <<orig, ctx, last, fields, gsCall, cdCall>>

FullNameNext ==
    \/ NewReflectedField
    \/ CallFullName

SpecFullName == FullNameInit /\ [][FullNameNext]_vars

(***************************************************************************)
(* Statements about FullName, checked under SpecFullName.                  *)
(***************************************************************************)
RECURSIVE Chain(_, _)
\* The fields from the root down to field f.
Chain(fs, f) == IF f = 0 THEN <<>> ELSE Append(Chain(fs, fs[f].Parent), f)

RECURSIVE DotJoined(_)
\* The strings of a list with "." between them.
DotJoined(names) ==
    IF names = <<>> THEN <<>>
    ELSE IF Len(names) = 1 THEN names[1]
    ELSE DotJoined(SubSeq(names, 1, Len(names) - 1)) \o <<".">> \o names[Len(names)]

ChainNames(fs, f) == [i \in 1..Len(Chain(fs, f)) |-> fs[Chain(fs, f)[i]].Name]

\* The names of the ancestors of f that are not empty, root first.
RECURSIVE NamedAncestors(_, _)
NamedAncestors(fs, f) ==
    IF fs[f].Parent = 0 THEN <<>>
    ELSE NamedAncestors(fs, fs[f].Parent)
            \o (IF fs[fs[f].Parent].Name = <<>> THEN <<>> ELSE <<fs[fs[f].Parent].Name>>)

\* C8 as stated: FullName() is the names of the ancestors from the root down
\* and the field's own name joined with "."; FullName(p1..pk) is that path,
\* ".", and the postfix joined with ".".
C8_FullNameIsDotJoinedChain ==
    fnCall.field # 0
        => LET path == DotJoined(ChainNames(fields, fnCall.field)) IN
           fnCall.result =
               IF fnCall.postfix = <<>> THEN path
               ELSE path \o <<".">> \o DotJoined(fnCall.postfix)

\* C8 as amended: FullName() is the names of the ancestors that have a
\* non-empty name, from the root down, and then the field's own name, joined
\* with "."; FullName(p1..pk) is that path, a "." unless the path is empty,
\* and the postfix joined with "."; and calling it again on the unchanged
\* fields gives the same string.
C8_FullNameSkipsEmptyAncestors ==
    fnCall.field # 0
        => LET path == DotJoined(Append(NamedAncestors(fields, fnCall.field),
                                        fields[fnCall.field].Name))
           IN  /\ fnCall.result =
                     IF fnCall.postfix = <<>> THEN path
                     ELSE IF path = <<>> THEN DotJoined(fnCall.postfix)
                     ELSE path \o <<".">> \o DotJoined(fnCall.postfix)
               /\ fnCall.result = FullName(fields, fnCall.field, fnCall.postfix)

\* FullName() of In under O under a root without a name is "O.In".
C8_Witness ==
    /\ fnCall.field = 3
    /\ fnCall.postfix = <<>>
    /\ fields = << [Parent |-> 0, Name |-> <<>>], [Parent |-> 1, Name |-> <<"O">>],
                   [Parent |-> 2, Name |-> <<"I", "n">>] >>
    /\ fnCall.result = <<"O", ".", "I", "n">>

(***************************************************************************)
(* GetStructFields.  A record is the sequence of its declared fields, each *)
(* with its name, the text of its tag under tagName and its value; it is   *)
(* passed by value, by pointer or as a nil pointer to its type.            *)
(***************************************************************************)
MalformedTags == {"min:"}
StructTags == {"", "not_empty"} \cup MalformedTags

\* parseTag(tagValue): the directive groups of a tag, or a parse error.
parseTag(tagValue) ==
    IF tagValue \in MalformedTags
    THEN [tagGroups |-> <<>>, err |-> "parse error"]
    ELSE [tagGroups |-> IF tagValue = "" THEN <<>> ELSE <<[parsedFrom |-> tagValue]>>,
          err |-> "nil"]

\* Go's rule for an exported identifier: its first character is an
\* upper-case letter.  reflect refuses Interface() on any other field.
GoExported(name) == IsUpper(name[1])

RECURSIVE WalkFields(_, _, _, _, _)
\* The loop of GetStructFields from field i on, with the fields collected so
\* far and the set of fields whose tag was handed to parseTag.
WalkFields(record, passedBy, i, collected, parsed) ==
    IF i > Len(record)
    THEN [fields |-> collected, isNil |-> collected = <<>>, err |-> "nil",
          panicked |-> FALSE, parsed |-> parsed]
    ELSE IF IsUpperByteRune(FirstByte(record[i].Name[1]))
    THEN LET tag == parseTag(record[i].Tag) IN
         IF tag.err # "nil"
         THEN [fields |-> <<>>, isNil |-> TRUE, err |-> tag.err,
               panicked |-> FALSE, parsed |-> parsed \cup {i}]
         ELSE IF passedBy = "nil pointer" \/ ~GoExported(record[i].Name)
         THEN \* reflectedValue.Field(i) of the zero Value, or Interface() of
              \* a value obtained from an unexported field
              [fields |-> <<>>, isNil |-> TRUE, err |-> "nil",
               panicked |-> TRUE, parsed |-> parsed \cup {i}]
         ELSE WalkFields(record, passedBy, i + 1,
                         Append(collected,
                                [Parent |-> 0, Name |-> record[i].Name,
                                 Value |-> record[i].Value,
                                 TagGroups |-> tag.tagGroups]),
                         parsed \cup {i})
    ELSE WalkFields(record, passedBy, i + 1, collected, parsed)

GetStructFields(record, passedBy) == WalkFields(record, passedBy, 1, <<>>, {})

StructFieldNames == {<<"A", "b">>, <<"a", "b">>, <<"é", "x">>, <<"U+1E02", "b">>}
StructFields == [Name : StructFieldNames, Tag : StructTags, Value : {0, 1}]
\* The record types: up to MaxFields fields, no name declared twice.
Records ==
    {r \in SeqsUpTo(StructFields, MaxFields) :
        \A i, j \in 1..Len(r) : i # j => r[i].Name # r[j].Name}

FieldsInit ==
    /\ ValidatorIdle
    /\ fields = <<>>
    /\ fnCall = NoFullName
    /\ gsCall = NoWalk
    /\ cdCall = NoDynamicCall

CallGetStructFields ==
    \E record \in Records, passedBy \in {"value", "pointer", "nil pointer"} :
        /\ gsCall' = [called |-> TRUE, record |-> record, passedBy |-> passedBy,
                      result |-> GetStructFields(record, passedBy)]
        /\ UNCHANGED <<orig, ctx, last, fields, fnCall, cdCall>>

FieldsNext == CallGetStructFields

SpecFields == FieldsInit /\ [][FieldsNext]_vars

(***************************************************************************)
(* Statements about GetStructFields, checked under SpecFields.             *)
(***************************************************************************)
RECURSIVE ExportedFrom(_, _)
\* The ReflectedFields of the exported fields of a record from field i on.
ExportedFrom(record, i) ==
    IF i > Len(record) THEN <<>>
    ELSE (IF GoExported(record[i].Name)
          THEN <<[Parent |-> 0, Name |-> record[i].Name, Value |-> record[i].Value,
                  TagGroups |-> parseTag(record[i].Tag).tagGroups]>>
          ELSE <<>>) \o ExportedFrom(record, i + 1)

ExportedTagsParse(record) ==
    \A i \in 1..Len(record) :
        GoExported(record[i].Name) => parseTag(record[i].Tag).err = "nil"

\* C7: for a record (passed by value or by pointer) GetStructFields returns,
\* when the tag of every exported field parses, one ReflectedField per
\* exported field in declaration order with its name, value and directive
\* groups and no error; it never parses the tag of an unexported field; and
\* when the tag of an exported field does not parse it returns the parse
\* error and a nil list.
C7_OneFieldPerExportedField ==
    (gsCall.called /\ gsCall.passedBy # "nil pointer")
        => LET r == gsCall.result IN
           /\ ~r.panicked
           /\ \A i \in r.parsed : GoExported(gsCall.record[i].Name)
           /\ IF ExportedTagsParse(gsCall.record)
              THEN r.err = "nil" /\ r.fields = ExportedFrom(gsCall.record, 1)
              ELSE r.err = "parse error" /\ r.isNil

(***************************************************************************)
(* CallDynamicMethod.  The target is a value of a struct type T, a pointer *)
(* to one, a nil *T or the nil interface.  T declares the methods below;   *)
(* an argument is known by its dynamic type ("nil" for the nil interface). *)
(***************************************************************************)
InvalidMethodError == "Method does not exist."
InputParameterMismatchError == "Arguments does not match those of target function."
UnhandledCallError == "Unhandled function call error."

\* The methods of T: the receiver, the types funcType.In lists, whether the
\* last one is variadic, and the results.
MethodsOfT ==
    [ Get  |-> [recv |-> "value", in |-> <<>>, variadic |-> FALSE,
                out |-> <<"string">>],
      Set  |-> [recv |-> "pointer", in |-> <<"string">>, variadic |-> FALSE,
                out |-> <<>>],
      Log  |-> [recv |-> "value", in |-> <<"interface{}">>, variadic |-> FALSE,
                out |-> <<"error">>],
      Show |-> [recv |-> "value", in |-> <<"fmt.Stringer">>, variadic |-> FALSE,
                out |-> <<"string">>],
      Join |-> [recv |-> "pointer", in |-> <<"string", "[]string">>, variadic |-> TRUE,
                out |-> <<"string", "error">>] ]

MethodNames == DOMAIN MethodsOfT \cup {"Missing"}
ArgTypes == {"string", "[]string", "url.URL", "nil"}
InterfaceKinds == {"interface{}", "fmt.Stringer"}

\* Whether reflect's Call accepts a value of dynamic type t for a parameter
\* of type p; it panics otherwise.
AssignableTo(t, p) ==
    \/ t = p
    \/ p = "interface{}"
    \/ p = "fmt.Stringer" /\ t = "url.URL"

\* The element type of a variadic parameter.
ElemOf(p) == IF p = "[]string" THEN "string" ELSE p

\* reflect.Value.MethodByName(name).IsValid() on a value of T (receiver
\* "value") or of *T (receiver "pointer"): the method set of *T holds the
\* methods of both receivers.
MethodIsValid(form, name) ==
    /\ name \in DOMAIN MethodsOfT
    /\ form = "pointer" \/ MethodsOfT[name].recv = "value"

\* finalMethod.Call(methodArgs): TRUE when reflect panics.
CallPanics(m, args) ==
    \/ \E i \in 1..Len(args) : args[i] = "nil"
    \/ IF m.variadic
       THEN \/ Len(args) < Len(m.in) - 1
            \/ \E i \in 1..Len(args) :
                  IF i < Len(m.in) THEN ~AssignableTo(args[i], m.in[i])
                  ELSE ~AssignableTo(args[i], ElemOf(m.in[Len(m.in)]))
       ELSE \/ Len(args) # Len(m.in)
            \/ \E i \in 1..Len(args) : ~AssignableTo(args[i], m.in[i])

Panic(why) == [results |-> <<>>, isNil |-> TRUE, err |-> "nil", panicked |-> TRUE,
               panic |-> why]
Returned(results, isNil, err) ==
    [results |-> results, isNil |-> isNil, err |-> err, panicked |-> FALSE,
     panic |-> ""]

CallDynamicMethod(i, methodName, args) ==
    IF i = "nil interface"
    THEN Panic("value.Type() of the zero Value")
    ELSE IF i = "nil pointer"
    THEN Panic("value.MethodByName of the zero Value")
    ELSE IF ~MethodIsValid("pointer", methodName)
    THEN Returned(<<>>, TRUE, InvalidMethodError)
    ELSE LET \* finalMethod: the method found on the value, replaced by the
             \* one found on the pointer, which is the same method of T
             m == MethodsOfT[methodName]
             numParameters == Len(m.in)
         IN  IF Len(args) # numParameters
             THEN Returned(<<>>, TRUE, InputParameterMismatchError)
             ELSE IF \E k \in 1..numParameters :
                        m.in[k] \notin InterfaceKinds /\ args[k] # m.in[k]
             THEN Returned(<<>>, TRUE, InputParameterMismatchError)
             ELSE IF CallPanics(m, args)
             THEN Panic("finalMethod.Call")
             ELSE Returned(m.out, FALSE, "nil")

CallInit ==
    /\ ValidatorIdle
    /\ fields = <<>>
    /\ fnCall = NoFullName
    /\ gsCall = NoWalk
    /\ cdCall = NoDynamicCall

CallCallDynamicMethod ==
    \E i \in {"value", "pointer", "nil pointer", "nil interface"},
       methodName \in MethodNames, args \in SeqsUpTo(ArgTypes, MaxArgs) :
        /\ cdCall' = [called |-> TRUE, target |-> i, methodName |-> methodName,
                      args |-> args, result |-> CallDynamicMethod(i, methodName, args)]
        /\ UNCHANGED <<orig, ctx, last, fields, fnCall, gsCall>>

CallNext == CallCallDynamicMethod

SpecCall == CallInit /\ [][CallNext]_vars

(***************************************************************************)
(* Statements about CallDynamicMethod, checked under SpecCall.             *)
(***************************************************************************)

\* C6: CallDynamicMethod never panics: for every target, method name and
\* argument list it returns the results of the method with a nil error, or
\* nil results with one of the three dispatch errors.
C6_NeverPanics ==
    cdCall.called
        => LET r == cdCall.result IN
           /\ ~r.panicked
           /\ \/ r.err = "nil" /\ ~r.isNil
                    /\ r.results = MethodsOfT[cdCall.methodName].out
              \/ r.isNil /\ r.err \in {InvalidMethodError, InputParameterMismatchError,
                                       UnhandledCallError}

=============================================================================
